---- MODULE Spec2Model ----
(***************************************************************************)
(* Model of src/config.rs: the conversion of the parsed command line       *)
(* (Args, pid) into a validated TrippyConfig, TrippyConfig::try_from.      *)
(*                                                                         *)
(* Durations are held in milliseconds.  A duration text is a sequence of   *)
(* <number, unit> components ("1s 500ms" has two), an address text a        *)
(* sequence of decimal octets.  Fields of Args that try_from copies        *)
(* unread into the result (interface, initial_sequence, payload_pattern,   *)
(* tos, the tui_* display options) are left out.                           *)
(***************************************************************************)
EXTENDS Integers, Sequences, FiniteSets, TLC

VARIABLES args, pid, result

vars == <<args, pid, result>>

----------------------------------------------------------------------------
(* Constants of config.rs *)

MAX_HOPS == 255
TUI_MIN_REFRESH_RATE_MS == 50
TUI_MAX_REFRESH_RATE_MS == 1000
MIN_GRACE_DURATION_MS == 10
MAX_GRACE_DURATION_MS == 1000
MIN_PACKET_SIZE == 28
MAX_PACKET_SIZE == 1024

(* enum Mode, enum TraceProtocol, enum DnsResolveMethod *)
Mode == {"Tui", "Stream", "Pretty", "Markdown", "Csv", "Json"}
TraceProtocol == {"Icmp", "Udp", "Tcp"}
DnsResolveMethod == {"System", "Resolv", "Google", "Cloudflare"}

----------------------------------------------------------------------------
(* Option<T> and Result<T, anyhow::Error> *)

None == [some |-> FALSE]
Some(v) == [some |-> TRUE, val |-> v]

Ok(v) == [tag |-> "Ok", val |-> v]
Err(m) == [tag |-> "Err", msg |-> m, field |-> ""]
IsErr(r) == r.tag = "Err"
Unit == "()"

(* PortDirection of trippy::tracing, as built by new_fixed_src / new_fixed_dest *)
PortNone == [dir |-> "None"]
new_fixed_src(p) == [dir |-> "FixedSrc", port |-> p]
new_fixed_dest(p) == [dir |-> "FixedDest", port |-> p]

Max(a, b) == IF a >= b THEN a ELSE b

----------------------------------------------------------------------------
(* Primitive parsers *)

UnitMillis(u) ==
    CASE u = "ms" -> 1
      [] u = "s" -> 1000
      [] u = "m" -> 60000
      [] OTHER -> 0

KnownUnits == {"ms", "s", "m"}

RECURSIVE SumMillis(_)
SumMillis(text) ==
    IF text = <<>> THEN 0
    ELSE Head(text).num * UnitMillis(Head(text).unit) + SumMillis(Tail(text))

(* humantime::parse_duration: an empty text, a number without a unit and an
   unknown unit are errors; otherwise the components add up. *)
parse_duration(text) ==
    IF Len(text) = 0 THEN Err("value was empty")
    ELSE IF \E i \in 1..Len(text) : text[i].unit = "" THEN Err("time unit needed")
    ELSE IF \E i \in 1..Len(text) : text[i].unit \notin KnownUnits THEN Err("unknown time unit")
    ELSE Ok(SumMillis(text))

(* IpAddr::from_str on a dotted IPv4 text, with the map_err of try_from *)
parse_source_address(addr) ==
    IF Len(addr) = 4 /\ \A i \in 1..4 : addr[i] \in 0..255
    THEN Ok(addr)
    ELSE Err("invalid source IP address format")

----------------------------------------------------------------------------
(* The validation rules *)

validate_addr_family(protocol, addr_family) ==
    IF addr_family = "Ipv6" /\ protocol = "Tcp"
    THEN Err("Tracing using TCP over IPv6 is not yet supported")
    ELSE Ok(Unit)

(* validate_multi without its TCP and UDP arm *)
validate_multi_mode_only(mode, protocol, targets) ==
    IF mode \in {"Stream", "Pretty", "Markdown", "Csv", "Json"} /\ Len(targets) > 1
    THEN Err("only a single target may be specified for this mode")
    ELSE Ok(Unit)

(* validate_multi with Stream missing from the modes of its first arm *)
validate_multi_stream_allowed(mode, protocol, targets) ==
    IF mode \in {"Pretty", "Markdown", "Csv", "Json"} /\ Len(targets) > 1
    THEN Err("only a single target may be specified for this mode")
    ELSE IF protocol \in {"Tcp", "Udp"} /\ Len(targets) > 1
    THEN Err("only a single target may be specified for TCP and UDP tracing")
    ELSE Ok(Unit)

validate_multi(mode, protocol, targets) ==
    IF mode \in {"Stream", "Pretty", "Markdown", "Csv", "Json"} /\ Len(targets) > 1
    THEN Err("only a single target may be specified for this mode")
    ELSE IF protocol \in {"Tcp", "Udp"} /\ Len(targets) > 1
    THEN Err("only a single target may be specified for TCP and UDP tracing")
    ELSE Ok(Unit)

validate_ttl(first_ttl, max_ttl) ==
    IF first_ttl < 1 \/ first_ttl > MAX_HOPS
    THEN Err("first_ttl must be in the range 1..MAX_HOPS")
    ELSE IF max_ttl < 1 \/ max_ttl > MAX_HOPS
    THEN Err("max_ttl must be in the range 1..MAX_HOPS")
    ELSE IF first_ttl > max_ttl
    THEN Err("first_ttl must be less than or equal to max_ttl")
    ELSE Ok(Unit)

validate_max_inflight(max_inflight) ==
    IF max_inflight = 0
    THEN Err("max_inflight must be greater than zero")
    ELSE Ok(Unit)

validate_round_duration(min_round_duration, max_round_duration) ==
    IF min_round_duration > max_round_duration
    THEN Err("max_round_duration must not be less than min_round_duration")
    ELSE Ok(Unit)

validate_grace_duration(grace_duration) ==
    IF grace_duration < MIN_GRACE_DURATION_MS \/ grace_duration > MAX_GRACE_DURATION_MS
    THEN Err("grace_duration must be between MIN and MAX inclusive")
    ELSE Ok(Unit)

(* validate_packet_size with the lower limit forgotten *)
validate_packet_size_no_min(packet_size) ==
    IF packet_size <= MAX_PACKET_SIZE
    THEN Ok(Unit)
    ELSE Err("packet_size must be between MIN and MAX inclusive")

validate_packet_size(packet_size) ==
    IF packet_size \in MIN_PACKET_SIZE..MAX_PACKET_SIZE
    THEN Ok(Unit)
    ELSE Err("packet_size must be between MIN and MAX inclusive")

(* validate_source_port off by one *)
validate_source_port_off_by_one(source_port) ==
    IF source_port < 1023
    THEN Err("source_port must be >= 1024")
    ELSE Ok(Unit)

validate_source_port(source_port) ==
    IF source_port < 1024
    THEN Err("source_port must be >= 1024")
    ELSE Ok(Unit)

validate_tui_refresh_rate(tui_refresh_rate) ==
    IF tui_refresh_rate < TUI_MIN_REFRESH_RATE_MS \/ tui_refresh_rate > TUI_MAX_REFRESH_RATE_MS
    THEN Err("tui_refresh_rate must be between MIN and MAX inclusive")
    ELSE Ok(Unit)

(* validate_report_cycles with the comparison of an unsigned value gone wrong *)
validate_report_cycles_never(report_cycles) ==
    IF report_cycles < 0
    THEN Err("report_cycles must be greater than zero")
    ELSE Ok(Unit)

validate_report_cycles(report_cycles) ==
    IF report_cycles = 0
    THEN Err("report_cycles must be greater than zero")
    ELSE Ok(Unit)

validate_dns(dns_resolve_method, dns_lookup_as_info) ==
    IF dns_resolve_method = "System" /\ dns_lookup_as_info
    THEN Err("AS lookup not supported by resolver system")
    ELSE Ok(Unit)

----------------------------------------------------------------------------
(* The derivations of try_from *)

(* port_direction with the default source port not raised to 1024 *)
port_direction_no_floor(protocol, source_port, target_port, seed) ==
    IF protocol = "Icmp" THEN Ok(PortNone)
    ELSE IF protocol = "Udp" /\ ~source_port.some /\ ~target_port.some
    THEN Ok(new_fixed_src(seed))
    ELSE IF protocol = "Udp" /\ source_port.some /\ ~target_port.some
    THEN IF IsErr(validate_source_port(source_port.val))
         THEN validate_source_port(source_port.val)
         ELSE Ok(new_fixed_src(source_port.val))
    ELSE IF protocol = "Tcp" /\ ~source_port.some /\ ~target_port.some
    THEN Ok(new_fixed_dest(80))
    ELSE IF protocol = "Tcp" /\ source_port.some /\ ~target_port.some
    THEN Ok(new_fixed_src(source_port.val))
    ELSE IF ~source_port.some /\ target_port.some
    THEN Ok(new_fixed_dest(target_port.val))
    ELSE Err("only one of source-port and target-port may be fixed")

(* port_direction with the TCP source arm matching any target port *)
port_direction_tcp_src_any(protocol, source_port, target_port, seed) ==
    IF protocol = "Icmp" THEN Ok(PortNone)
    ELSE IF protocol = "Udp" /\ ~source_port.some /\ ~target_port.some
    THEN Ok(new_fixed_src(Max(seed, 1024)))
    ELSE IF protocol = "Udp" /\ source_port.some /\ ~target_port.some
    THEN IF IsErr(validate_source_port(source_port.val))
         THEN validate_source_port(source_port.val)
         ELSE Ok(new_fixed_src(source_port.val))
    ELSE IF protocol = "Tcp" /\ ~source_port.some /\ ~target_port.some
    THEN Ok(new_fixed_dest(80))
    ELSE IF protocol = "Tcp" /\ source_port.some
    THEN Ok(new_fixed_src(source_port.val))
    ELSE IF ~source_port.some /\ target_port.some
    THEN Ok(new_fixed_dest(target_port.val))
    ELSE Err("only one of source-port and target-port may be fixed")

(* match (args.protocol, args.source_port, args.target_port), first arm that
   matches *)
port_direction(protocol, source_port, target_port, seed) ==
    IF protocol = "Icmp" THEN Ok(PortNone)
    ELSE IF protocol = "Udp" /\ ~source_port.some /\ ~target_port.some
    THEN Ok(new_fixed_src(Max(seed, 1024)))
    ELSE IF protocol = "Udp" /\ source_port.some /\ ~target_port.some
    THEN IF IsErr(validate_source_port(source_port.val))
         THEN validate_source_port(source_port.val)
         ELSE Ok(new_fixed_src(source_port.val))
    ELSE IF protocol = "Tcp" /\ ~source_port.some /\ ~target_port.some
    THEN Ok(new_fixed_dest(80))
    ELSE IF protocol = "Tcp" /\ source_port.some /\ ~target_port.some
    THEN Ok(new_fixed_src(source_port.val))
    ELSE IF ~source_port.some /\ target_port.some
    THEN Ok(new_fixed_dest(target_port.val))
    ELSE Err("only one of source-port and target-port may be fixed")

addr_family_of(ipv6) == IF ipv6 THEN "Ipv6" ELSE "Ipv4"

(* max_rounds_of with Stream among the report modes *)
max_rounds_of_stream_capped(mode, report_cycles) ==
    IF mode \in {"Tui"} THEN None ELSE Some(report_cycles)

max_rounds_of(mode, report_cycles) ==
    IF mode \in {"Stream", "Tui"} THEN None ELSE Some(report_cycles)

(* validate_all with validate_packet_size called before validate_ttl *)
validate_all_packet_first(a, addr_family, min_round_duration, max_round_duration, grace_duration, tui_refresh_rate) ==
    IF IsErr(validate_addr_family(a.protocol, addr_family))
    THEN validate_addr_family(a.protocol, addr_family)
    ELSE IF IsErr(validate_multi(a.mode, a.protocol, a.targets))
    THEN validate_multi(a.mode, a.protocol, a.targets)
    ELSE IF IsErr(validate_packet_size(a.packet_size))
    THEN validate_packet_size(a.packet_size)
    ELSE IF IsErr(validate_ttl(a.first_ttl, a.max_ttl))
    THEN validate_ttl(a.first_ttl, a.max_ttl)
    ELSE IF IsErr(validate_max_inflight(a.max_inflight))
    THEN validate_max_inflight(a.max_inflight)
    ELSE IF IsErr(validate_round_duration(min_round_duration, max_round_duration))
    THEN validate_round_duration(min_round_duration, max_round_duration)
    ELSE IF IsErr(validate_grace_duration(grace_duration))
    THEN validate_grace_duration(grace_duration)
    ELSE IF IsErr(validate_tui_refresh_rate(tui_refresh_rate))
    THEN validate_tui_refresh_rate(tui_refresh_rate)
    ELSE IF IsErr(validate_report_cycles(a.report_cycles))
    THEN validate_report_cycles(a.report_cycles)
    ELSE validate_dns(a.dns_resolve_method, a.dns_lookup_as_info)

(* the chain of validate_x(..)? calls, the first error returned *)
validate_all(a, addr_family, min_round_duration, max_round_duration, grace_duration, tui_refresh_rate) ==
    IF IsErr(validate_addr_family(a.protocol, addr_family))
    THEN validate_addr_family(a.protocol, addr_family)
    ELSE IF IsErr(validate_multi(a.mode, a.protocol, a.targets))
    THEN validate_multi(a.mode, a.protocol, a.targets)
    ELSE IF IsErr(validate_ttl(a.first_ttl, a.max_ttl))
    THEN validate_ttl(a.first_ttl, a.max_ttl)
    ELSE IF IsErr(validate_max_inflight(a.max_inflight))
    THEN validate_max_inflight(a.max_inflight)
    ELSE IF IsErr(validate_round_duration(min_round_duration, max_round_duration))
    THEN validate_round_duration(min_round_duration, max_round_duration)
    ELSE IF IsErr(validate_grace_duration(grace_duration))
    THEN validate_grace_duration(grace_duration)
    ELSE IF IsErr(validate_packet_size(a.packet_size))
    THEN validate_packet_size(a.packet_size)
    ELSE IF IsErr(validate_tui_refresh_rate(tui_refresh_rate))
    THEN validate_tui_refresh_rate(tui_refresh_rate)
    ELSE IF IsErr(validate_report_cycles(a.report_cycles))
    THEN validate_report_cycles(a.report_cycles)
    ELSE validate_dns(a.dns_resolve_method, a.dns_lookup_as_info)

(* a failed parse of the duration field f, as the ? operator returns it; the
   field records which of the parse_duration(..)? calls returned *)
ParseErr(f, e) == [tag |-> "Err", msg |-> e.msg, field |-> f]

(* Ok(Self { .. }): the fields of the result; source_address is the parsed
   Option<IpAddr> *)
config(a, addr_family, min_round_duration, max_round_duration, grace_duration, source_address, direction, dns_timeout, tui_refresh_rate, max_rounds) ==
    [targets |-> a.targets,
     protocol |-> a.protocol,
     addr_family |-> addr_family,
     first_ttl |-> a.first_ttl,
     max_ttl |-> a.max_ttl,
     min_round_duration |-> min_round_duration,
     max_round_duration |-> max_round_duration,
     grace_duration |-> grace_duration,
     max_inflight |-> a.max_inflight,
     packet_size |-> a.packet_size,
     source_addr |-> IF a.source_address.some THEN Some(source_address) ELSE None,
     port_direction |-> direction,
     dns_timeout |-> dns_timeout,
     dns_resolve_method |-> a.dns_resolve_method,
     dns_lookup_as_info |-> a.dns_lookup_as_info,
     tui_refresh_rate |-> tui_refresh_rate,
     mode |-> a.mode,
     report_cycles |-> a.report_cycles,
     max_rounds |-> max_rounds]

(* try_from with the port direction derived right after min_round_duration *)
try_from_ports_early(a, seed) ==
    LET min_round_duration == parse_duration(a.min_round_duration)
        max_round_duration == parse_duration(a.max_round_duration)
        grace_duration == parse_duration(a.grace_duration)
        source_address ==
            IF a.source_address.some
            THEN parse_source_address(a.source_address.val)
            ELSE Ok(None)
        direction == port_direction(a.protocol, a.source_port, a.target_port, seed)
        addr_family == addr_family_of(a.ipv6)
        tui_refresh_rate == parse_duration(a.tui_refresh_rate)
        dns_timeout == parse_duration(a.dns_timeout)
        max_rounds == max_rounds_of(a.mode, a.report_cycles)
    IN
    IF IsErr(min_round_duration) THEN ParseErr("min_round_duration", min_round_duration)
    ELSE IF IsErr(direction) THEN direction
    ELSE IF IsErr(max_round_duration) THEN ParseErr("max_round_duration", max_round_duration)
    ELSE IF IsErr(grace_duration) THEN ParseErr("grace_duration", grace_duration)
    ELSE IF IsErr(source_address) THEN source_address
    ELSE IF IsErr(tui_refresh_rate) THEN ParseErr("tui_refresh_rate", tui_refresh_rate)
    ELSE IF IsErr(dns_timeout) THEN ParseErr("dns_timeout", dns_timeout)
    ELSE LET checked == validate_all(a, addr_family, min_round_duration.val,
                                     max_round_duration.val, grace_duration.val,
                                     tui_refresh_rate.val)
         IN
         IF IsErr(checked) THEN checked
         ELSE Ok(config(a, addr_family, min_round_duration.val, max_round_duration.val,
                        grace_duration.val, source_address.val, direction.val,
                        dns_timeout.val, tui_refresh_rate.val, max_rounds))

(* impl TryFrom<(Args, u16)> for TrippyConfig: each let .. ? in the order of
   the code, then the validation, then Ok *)
try_from(a, seed) ==
    LET min_round_duration == parse_duration(a.min_round_duration)
        max_round_duration == parse_duration(a.max_round_duration)
        grace_duration == parse_duration(a.grace_duration)
        source_address ==
            IF a.source_address.some
            THEN parse_source_address(a.source_address.val)
            ELSE Ok(None)
        direction == port_direction(a.protocol, a.source_port, a.target_port, seed)
        addr_family == addr_family_of(a.ipv6)
        tui_refresh_rate == parse_duration(a.tui_refresh_rate)
        dns_timeout == parse_duration(a.dns_timeout)
        max_rounds == max_rounds_of(a.mode, a.report_cycles)
    IN
    IF IsErr(min_round_duration) THEN ParseErr("min_round_duration", min_round_duration)
    ELSE IF IsErr(max_round_duration) THEN ParseErr("max_round_duration", max_round_duration)
    ELSE IF IsErr(grace_duration) THEN ParseErr("grace_duration", grace_duration)
    ELSE IF IsErr(source_address) THEN source_address
    ELSE IF IsErr(direction) THEN direction
    ELSE IF IsErr(tui_refresh_rate) THEN ParseErr("tui_refresh_rate", tui_refresh_rate)
    ELSE IF IsErr(dns_timeout) THEN ParseErr("dns_timeout", dns_timeout)
    ELSE LET checked == validate_all(a, addr_family, min_round_duration.val,
                                     max_round_duration.val, grace_duration.val,
                                     tui_refresh_rate.val)
         IN
         IF IsErr(checked) THEN checked
         ELSE Ok(config(a, addr_family, min_round_duration.val, max_round_duration.val,
                        grace_duration.val, source_address.val, direction.val,
                        dns_timeout.val, tui_refresh_rate.val, max_rounds))

----------------------------------------------------------------------------
(* The inputs: Args as clap hands them over, and the process id *)

MaxTargets == 2

Text(n, u) == <<[num |-> n, unit |-> u]>>

(* the defaults of #[clap(default_value ...)] *)
DefaultArgs ==
    [targets |-> <<"host1">>,
     mode |-> "Tui",
     protocol |-> "Icmp",
     ipv6 |-> FALSE,
     target_port |-> None,
     source_port |-> None,
     source_address |-> None,
     min_round_duration |-> Text(1, "s"),
     max_round_duration |-> Text(1, "s"),
     grace_duration |-> Text(100, "ms"),
     max_inflight |-> 24,
     first_ttl |-> 1,
     max_ttl |-> 64,
     packet_size |-> 84,
     dns_resolve_method |-> "System",
     dns_timeout |-> Text(5, "s"),
     dns_lookup_as_info |-> FALSE,
     tui_refresh_rate |-> Text(100, "ms"),
     report_cycles |-> 10]

HostName(i) == IF i = 1 THEN "host1" ELSE IF i = 2 THEN "host2" ELSE "hostN"
TargetLists == {[i \in 1..n |-> HostName(i)] : n \in 1..MaxTargets}

Pids == {500, 2000}
PortPairs == {<<None, None>>, <<Some(80), None>>, <<Some(1023), None>>, <<Some(1024), None>>,
              <<None, Some(443)>>, <<Some(80), Some(443)>>, <<Some(2000), Some(443)>>}
TtlPairs == {<<1, 64>>, <<0, 64>>, <<1, 0>>, <<10, 5>>, <<255, 255>>}
DnsPairs == {<<"System", FALSE>>, <<"System", TRUE>>, <<"Google", TRUE>>}
AddrTexts == {None, Some(<<127, 0, 0, 1>>), Some(<<256, 0, 0, 1>>), Some(<<10, 0, 1>>)}

(* the protocol and the ports against every text field, well-formed or not *)
PortInputs ==
    \E pr \in TraceProtocol, pp \in PortPairs, seed \in Pids,
       mn \in {Text(1, "s"), <<>>}, mx \in {Text(1, "s"), Text(1, "")},
       gr \in {Text(100, "ms"), Text(100, "sec")}, sa \in {None, Some(<<256, 0, 0, 1>>)},
       rr \in {Text(100, "ms"), Text(100, "")}, dt \in {Text(5, "s"), <<>>},
       ps \in {84, 27} :
        /\ args = [DefaultArgs EXCEPT !.protocol = pr, !.source_port = pp[1],
                                      !.target_port = pp[2],
                                      !.min_round_duration = mn, !.max_round_duration = mx,
                                      !.grace_duration = gr, !.source_address = sa,
                                      !.tui_refresh_rate = rr, !.dns_timeout = dt,
                                      !.packet_size = ps]
        /\ pid = seed

(* every mode, protocol and target count against every validation rule, one
   passing and one failing value for each rule, all text well-formed *)
RuleInputs ==
    \E m \in Mode, pr \in TraceProtocol, ts \in TargetLists, v6 \in BOOLEAN,
       pp \in {<<None, None>>, <<Some(80), None>>, <<Some(80), Some(443)>>},
       tt \in {<<1, 64>>, <<0, 64>>, <<1, 0>>, <<10, 5>>}, mi \in {24, 0},
       mn \in {Text(1, "s"), Text(2, "s")}, gr \in {Text(100, "ms"), Text(5, "ms")},
       ps \in {84, 27, 1025}, rr \in {Text(100, "ms"), Text(2, "s")}, rc \in {10, 0},
       dn \in DnsPairs :
        /\ args = [DefaultArgs EXCEPT !.mode = m, !.protocol = pr, !.targets = ts,
                                      !.ipv6 = v6,
                                      !.source_port = pp[1], !.target_port = pp[2],
                                      !.first_ttl = tt[1], !.max_ttl = tt[2],
                                      !.max_inflight = mi,
                                      !.min_round_duration = mn, !.grace_duration = gr,
                                      !.packet_size = ps, !.tui_refresh_rate = rr,
                                      !.report_cycles = rc,
                                      !.dns_resolve_method = dn[1],
                                      !.dns_lookup_as_info = dn[2]]
        /\ pid = 500

(* the numeric fields at and around the limits of their rules *)
NumericLimitInputs ==
    \E m \in {"Tui", "Json"}, tt \in TtlPairs, mi \in {0, 1, 255},
       ps \in {27, 28, 1024, 1025}, rc \in {0, 1}, dr \in DnsResolveMethod :
        /\ args = [DefaultArgs EXCEPT !.mode = m, !.first_ttl = tt[1], !.max_ttl = tt[2],
                                      !.max_inflight = mi, !.packet_size = ps,
                                      !.report_cycles = rc, !.dns_resolve_method = dr]
        /\ pid = 500

(* the duration fields at and around the limits of their rules, and the
   source address *)
TextLimitInputs ==
    \E mn \in {Text(1, "s"), Text(1001, "ms")},
       mx \in {Text(1, "s"), Text(1, "m"),
               <<[num |-> 1, unit |-> "s"], [num |-> 500, unit |-> "ms"]>>},
       gr \in {Text(9, "ms"), Text(10, "ms"), Text(1, "s"), Text(1001, "ms")},
       rr \in {Text(49, "ms"), Text(50, "ms"), Text(1, "s"), Text(1001, "ms")},
       sa \in AddrTexts :
        /\ args = [DefaultArgs EXCEPT !.min_round_duration = mn, !.max_round_duration = mx,
                                      !.grace_duration = gr, !.tui_refresh_rate = rr,
                                      !.source_address = sa]
        /\ pid = 500

Init == /\ PortInputs \/ RuleInputs \/ NumericLimitInputs \/ TextLimitInputs
        /\ result = [tag |-> "None"]

(* the one call of TrippyConfig::try_from((args, pid)) at startup *)
TryFrom ==
    /\ result.tag = "None"
    /\ result' = try_from(args, pid)
    /\ UNCHANGED <<args, pid>>

Next == TryFrom

Spec == Init /\ [][Next]_vars

----------------------------------------------------------------------------
(* What the properties below speak of *)

Done == result.tag # "None"
Succeeded == result.tag = "Ok"
Failed == result.tag = "Err"
cfg == result.val

ConflictMsg == "only one of source-port and target-port may be fixed"
SourcePortMsg == "source_port must be >= 1024"
SingleForModeMsg == "only a single target may be specified for this mode"
SingleForProtocolMsg == "only a single target may be specified for TCP and UDP tracing"
ReportCyclesMsg == "report_cycles must be greater than zero"

(* the returned error is a parse error of the text field f *)
IsParseErrorOf(f) ==
    Failed /\ IF f = "source_address"
              THEN result.msg = "invalid source IP address format"
              ELSE result.field = f

WellFormedDuration(text) ==
    Len(text) > 0 /\ \A i \in 1..Len(text) : text[i].unit \in {"ms", "s", "m"}

WellFormedAddress(o) ==
    ~o.some \/ (Len(o.val) = 4 /\ \A i \in 1..4 : o.val[i] >= 0 /\ o.val[i] <= 255)

(* the text fields parsed before the port direction is derived, in the order
   of parsing, and those parsed after it *)
EarlyFields == <<"min_round_duration", "max_round_duration", "grace_duration", "source_address">>
LateFields == <<"tui_refresh_rate", "dns_timeout">>

Malformed(f) ==
    CASE f = "min_round_duration" -> ~WellFormedDuration(args.min_round_duration)
      [] f = "max_round_duration" -> ~WellFormedDuration(args.max_round_duration)
      [] f = "grace_duration" -> ~WellFormedDuration(args.grace_duration)
      [] f = "source_address" -> ~WellFormedAddress(args.source_address)
      [] f = "tui_refresh_rate" -> ~WellFormedDuration(args.tui_refresh_rate)
      [] f = "dns_timeout" -> ~WellFormedDuration(args.dns_timeout)

EarlyTextOk == \A i \in 1..Len(EarlyFields) : ~Malformed(EarlyFields[i])
LateTextOk == \A i \in 1..Len(LateFields) : ~Malformed(LateFields[i])
AllTextOk == EarlyTextOk /\ LateTextOk

BothPorts == args.source_port.some /\ args.target_port.some
NoPorts == ~args.source_port.some /\ ~args.target_port.some
ManyTargets == Len(args.targets) > 1
FiniteMode == args.mode \in {"Pretty", "Markdown", "Csv", "Json"}

(* the checks in the order the specification gives them, each as a condition
   on the input; the durations are meant only where the text is well-formed *)
Checks == <<"port direction", "address family", "multi-target", "ttl", "max-inflight",
            "round duration", "grace duration", "packet size", "refresh rate",
            "report cycles", "dns">>
NumChecks == Len(Checks)
Violated(k) ==
    CASE k = 1 -> /\ args.protocol # "Icmp"
                  /\ \/ BothPorts
                     \/ /\ args.protocol = "Udp"
                        /\ args.source_port.some
                        /\ args.source_port.val < 1024
      [] k = 2 -> args.protocol = "Tcp" /\ args.ipv6
      [] k = 3 -> ManyTargets /\ (args.mode # "Tui" \/ args.protocol # "Icmp")
      [] k = 4 -> ~(1 <= args.first_ttl /\ args.first_ttl <= args.max_ttl /\ args.max_ttl <= 255)
      [] k = 5 -> ~(args.max_inflight > 0)
      [] k = 6 -> SumMillis(args.min_round_duration) > SumMillis(args.max_round_duration)
      [] k = 7 -> ~(10 <= SumMillis(args.grace_duration) /\ SumMillis(args.grace_duration) <= 1000)
      [] k = 8 -> ~(28 <= args.packet_size /\ args.packet_size <= 1024)
      [] k = 9 -> ~(50 <= SumMillis(args.tui_refresh_rate) /\ SumMillis(args.tui_refresh_rate) <= 1000)
      [] k = 10 -> args.report_cycles = 0
      [] k = 11 -> args.dns_resolve_method = "System" /\ args.dns_lookup_as_info

(* the check an error message belongs to *)
CheckOf(msg) ==
    CASE msg \in {ConflictMsg, SourcePortMsg} -> 1
      [] msg = "Tracing using TCP over IPv6 is not yet supported" -> 2
      [] msg \in {SingleForModeMsg, SingleForProtocolMsg} -> 3
      [] msg \in {"first_ttl must be in the range 1..MAX_HOPS",
                  "max_ttl must be in the range 1..MAX_HOPS",
                  "first_ttl must be less than or equal to max_ttl"} -> 4
      [] msg = "max_inflight must be greater than zero" -> 5
      [] msg = "max_round_duration must not be less than min_round_duration" -> 6
      [] msg = "grace_duration must be between MIN and MAX inclusive" -> 7
      [] msg = "packet_size must be between MIN and MAX inclusive" -> 8
      [] msg = "tui_refresh_rate must be between MIN and MAX inclusive" -> 9
      [] msg = ReportCyclesMsg -> 10
      [] msg = "AS lookup not supported by resolver system" -> 11
      [] OTHER -> 0

AnyViolated == \E k \in 1..NumChecks : Violated(k)
FirstViolated == CHOOSE k \in 1..NumChecks : Violated(k) /\ \A j \in 1..(k - 1) : ~Violated(j)

(* every text is well-formed and no check other than check k is violated *)
ValidBut(k) == AllTextOk /\ \A j \in (1..NumChecks) \ {k} : ~Violated(j)

----------------------------------------------------------------------------
(* C1: every config that try_from returns as Ok has 1 <= first_ttl <= max_ttl
   <= 255, max_inflight > 0, min_round_duration <= max_round_duration, a
   grace_duration of 10ms..1000ms, a packet_size of 28..1024, a
   tui_refresh_rate of 50ms..1000ms, is not TCP over IPv6 and is not AS lookup
   with the system resolver; the numeric fields and flags are those of the
   input, so no input violating one of them yields Ok. *)
C1_OkSatisfiesInvariants ==
    Succeeded =>
        /\ 1 <= cfg.first_ttl /\ cfg.first_ttl <= cfg.max_ttl /\ cfg.max_ttl <= 255
        /\ cfg.max_inflight > 0
        /\ cfg.min_round_duration <= cfg.max_round_duration
        /\ 10 <= cfg.grace_duration /\ cfg.grace_duration <= 1000
        /\ 28 <= cfg.packet_size /\ cfg.packet_size <= 1024
        /\ 50 <= cfg.tui_refresh_rate /\ cfg.tui_refresh_rate <= 1000
        /\ ~(cfg.protocol = "Tcp" /\ cfg.addr_family = "Ipv6")
        /\ ~(cfg.dns_resolve_method = "System" /\ cfg.dns_lookup_as_info)
        /\ cfg.first_ttl = args.first_ttl /\ cfg.max_ttl = args.max_ttl
        /\ cfg.max_inflight = args.max_inflight /\ cfg.packet_size = args.packet_size
        /\ cfg.protocol = args.protocol /\ (cfg.addr_family = "Ipv6") = args.ipv6
        /\ cfg.dns_resolve_method = args.dns_resolve_method
        /\ cfg.dns_lookup_as_info = args.dns_lookup_as_info
        /\ \A k \in {2, 4, 5, 6, 7, 8, 9, 11} : ~Violated(k)

(* C1 witness: a config is produced with several fields on their limits *)
C1_Witness ==
    /\ Succeeded
    /\ cfg.first_ttl = 255 /\ cfg.max_ttl = 255
    /\ cfg.packet_size = 28
    /\ cfg.max_inflight = 1

(* the port direction the table of the specification gives, first matching
   row; PortError stands for the rows that are errors *)
PortError == [dir |-> "Error"]
FixedSource(p) == [dir |-> "FixedSrc", port |-> p]
FixedDestination(p) == [dir |-> "FixedDest", port |-> p]
TablePortDirection ==
    LET src == args.source_port
        dst == args.target_port
    IN
    IF args.protocol = "Icmp" THEN [dir |-> "None"]
    ELSE IF BothPorts THEN PortError
    ELSE IF dst.some THEN FixedDestination(dst.val)
    ELSE IF args.protocol = "Udp"
         THEN IF ~src.some THEN FixedSource(IF pid >= 1024 THEN pid ELSE 1024)
              ELSE IF src.val >= 1024 THEN FixedSource(src.val) ELSE PortError
    ELSE IF src.some THEN FixedSource(src.val) ELSE FixedDestination(80)

(* C2: the port direction of a produced config is the one the table gives for
   (protocol, source_port, target_port, seed); where the table gives an error
   the construction fails, with a port error if the text parsed before the
   derivation is well-formed; where it gives a direction no port error is
   returned.  With UDP and no ports, seed 500 gives FixedSource(1024) and seed
   2000 gives FixedSource(2000). *)
C2_PortDirectionTable ==
    Done =>
        /\ Succeeded => cfg.port_direction = TablePortDirection
        /\ TablePortDirection = PortError =>
              /\ Failed
              /\ EarlyTextOk => CheckOf(result.msg) = 1
        /\ (Failed /\ TablePortDirection # PortError) => CheckOf(result.msg) # 1
        /\ (Succeeded /\ args.protocol = "Udp" /\ NoPorts /\ pid = 500)
              => cfg.port_direction = [dir |-> "FixedSrc", port |-> 1024]
        /\ (Succeeded /\ args.protocol = "Udp" /\ NoPorts /\ pid = 2000)
              => cfg.port_direction = [dir |-> "FixedSrc", port |-> 2000]

(* C2 witness: UDP, no ports, seed 500: the source port is fixed at 1024 *)
C2_Witness ==
    /\ Succeeded /\ args.protocol = "Udp" /\ NoPorts /\ pid = 500
    /\ cfg.port_direction = [dir |-> "FixedSrc", port |-> 1024]

(* C3 as stated: whenever both ports are given, construction fails with the
   conflicting-ports error, whatever the protocol and the other fields. *)
C3_AsStated ==
    (Done /\ BothPorts) => (Failed /\ result.msg = ConflictMsg)

(* C3: whenever both ports are given and the protocol is UDP or TCP,
   construction fails, and with the conflicting-ports error when
   min_round_duration, max_round_duration, grace_duration and the source
   address are well-formed, whatever the other fields; with ICMP the ports are
   not looked at and the conflicting-ports error is never returned. *)
C3_ConflictForUdpTcp ==
    /\ (Done /\ BothPorts /\ args.protocol \in {"Udp", "Tcp"}) =>
          /\ Failed
          /\ EarlyTextOk => result.msg = ConflictMsg
    /\ (Failed /\ args.protocol = "Icmp") => result.msg # ConflictMsg

(* C3 witness: TCP with both ports and an unparsable refresh rate fails with
   the conflicting-ports error *)
C3_Witness ==
    /\ Failed /\ result.msg = ConflictMsg
    /\ args.protocol = "Tcp" /\ args.source_port = Some(2000)
    /\ Malformed("tui_refresh_rate")

(* C4 as stated: a produced config whose input gave a source port has that
   port >= 1024, for every protocol. *)
C4_AsStated ==
    (Succeeded /\ args.source_port.some) => args.source_port.val >= 1024

(* C4: a produced config with protocol UDP whose input gave a source port has
   that port >= 1024 and fixed as the source; with TCP and ICMP the source port
   is not checked: the source-port error is never returned for them. *)
C4_UdpSourcePort ==
    /\ (Succeeded /\ args.protocol = "Udp" /\ args.source_port.some) =>
          /\ args.source_port.val >= 1024
          /\ cfg.port_direction = [dir |-> "FixedSrc", port |-> args.source_port.val]
    /\ (Failed /\ args.protocol # "Udp") => result.msg # SourcePortMsg

(* C4 witness: UDP with source port 1024 is accepted *)
C4_Witness ==
    /\ Succeeded /\ args.protocol = "Udp"
    /\ args.source_port = Some(1024)

(* C5: a config produced from more than one target has mode Stream or Tui and
   protocol ICMP; with more than one target TCP fails in every mode and Csv
   fails for every protocol; two targets with Tui and ICMP and everything else
   valid succeed. *)
C5_MultiTargets ==
    /\ (Succeeded /\ ManyTargets) =>
          (args.mode \in {"Stream", "Tui"} /\ args.protocol = "Icmp")
    /\ (Done /\ ManyTargets /\ args.protocol = "Tcp") => Failed
    /\ (Done /\ ManyTargets /\ args.mode = "Csv") => Failed
    /\ (Done /\ Len(args.targets) = 2 /\ args.mode = "Tui" /\ args.protocol = "Icmp"
          /\ ValidBut(3)) => Succeeded

(* C5 witness: two targets, Tui, ICMP: a config is produced *)
C5_Witness ==
    /\ Succeeded /\ Len(args.targets) = 2
    /\ args.mode = "Tui" /\ args.protocol = "Icmp"

(* C6 as stated: with every other field valid, report_cycles = 0 fails in the
   modes Pretty, Markdown, Csv and Json and does not fail in Tui and Stream. *)
C6_AsStated ==
    (Done /\ args.report_cycles = 0 /\ ValidBut(10)) =>
        (IF FiniteMode THEN Failed ELSE Succeeded)

(* C6: report_cycles = 0 makes construction fail in every mode, Tui and
   Stream included; with every other field valid the error is the
   report-cycle error. *)
C6_ZeroCyclesFailsInEveryMode ==
    (Done /\ args.report_cycles = 0) =>
        /\ Failed
        /\ ValidBut(10) => result.msg = ReportCyclesMsg

(* C6 witness: Tui with report_cycles = 0 and everything else valid fails with
   the report-cycle error *)
C6_Witness ==
    /\ Failed /\ result.msg = ReportCyclesMsg
    /\ args.mode = "Tui" /\ ValidBut(10)

(* C7: in a produced config max_rounds is None for Tui and Stream and
   Some(report_cycles) of the input for Pretty, Markdown, Csv and Json. *)
C7_MaxRounds ==
    Succeeded =>
        IF args.mode \in {"Tui", "Stream"}
        THEN ~cfg.max_rounds.some
        ELSE cfg.max_rounds.some /\ cfg.max_rounds.val = args.report_cycles

(* C7 witness: a Stream config without a cap *)
C7_Witness ==
    /\ Succeeded /\ args.mode = "Stream"
    /\ ~cfg.max_rounds.some /\ args.report_cycles = 10

(* C8: when all text is well-formed, construction succeeds if no check is
   violated and otherwise fails with the error of the earliest violated check
   in the order port direction, address family, multi-target, ttl,
   max-inflight, round duration, grace duration, packet size, refresh rate,
   report cycles, DNS. *)
C8_FirstViolatedCheck ==
    (Done /\ AllTextOk) =>
        IF AnyViolated
        THEN Failed /\ CheckOf(result.msg) = FirstViolated
        ELSE Succeeded

(* C8 witness: a port conflict together with a ttl and a packet size out of
   range is reported as the port conflict *)
C8_Witness ==
    /\ Failed /\ result.msg = ConflictMsg
    /\ AllTextOk /\ Violated(4) /\ Violated(8)

(* C9 as stated: if any text field is malformed, the error is the parse error
   of a malformed field, whatever the ports and the ranges. *)
C9_AsStated ==
    (Done /\ ~AllTextOk) =>
        \E f \in {"min_round_duration", "max_round_duration", "grace_duration",
                  "source_address", "tui_refresh_rate", "dns_timeout"} :
            Malformed(f) /\ IsParseErrorOf(f)

(* C9: if min_round_duration, max_round_duration, grace_duration or the
   source address is malformed, the error is the parse error of the first
   malformed of them, whatever the ports and the ranges; if only
   tui_refresh_rate or dns_timeout is malformed, the error is the port error
   when the port derivation fails and otherwise the parse error of the first
   malformed of the two, whatever the ranges. *)
C9_ParseBeforeValidation ==
    /\ (Done /\ ~EarlyTextOk) =>
          \E i \in 1..Len(EarlyFields) :
              /\ Malformed(EarlyFields[i])
              /\ \A j \in 1..(i - 1) : ~Malformed(EarlyFields[j])
              /\ IsParseErrorOf(EarlyFields[i])
    /\ (Done /\ EarlyTextOk /\ ~LateTextOk) =>
          IF Violated(1)
          THEN Failed /\ CheckOf(result.msg) = 1
          ELSE \E i \in 1..Len(LateFields) :
                  /\ Malformed(LateFields[i])
                  /\ \A j \in 1..(i - 1) : ~Malformed(LateFields[j])
                  /\ IsParseErrorOf(LateFields[i])

(* C9 witness: UDP with both ports, a packet size out of range and an
   unparsable max_round_duration fails with that parse error *)
C9_Witness ==
    /\ IsParseErrorOf("max_round_duration")
    /\ args.protocol = "Udp" /\ BothPorts /\ args.packet_size = 27
    /\ ~Malformed("min_round_duration")

(* C10: with more than one target and every other rule satisfied,
   construction succeeds exactly when the mode is Tui and the protocol ICMP;
   Stream is rejected for every protocol with the single-target-for-this-mode
   error, and for TCP and UDP in a mode other than Tui that error, not the
   TCP-and-UDP one, is returned. *)
C10_MultiOnlyTuiIcmp ==
    (Done /\ ManyTargets /\ ValidBut(3)) =>
        /\ Succeeded <=> (args.mode = "Tui" /\ args.protocol = "Icmp")
        /\ args.mode = "Stream" => (Failed /\ result.msg = SingleForModeMsg)
        /\ (args.mode # "Tui" /\ args.protocol \in {"Tcp", "Udp"})
              => (Failed /\ result.msg = SingleForModeMsg)
        /\ (args.mode = "Tui" /\ args.protocol \in {"Tcp", "Udp"})
              => (Failed /\ result.msg = SingleForProtocolMsg)

(* C10 witness: two targets, Stream, ICMP, everything else valid: rejected
   with the single-target-for-this-mode error *)
C10_Witness ==
    /\ Failed /\ result.msg = SingleForModeMsg
    /\ args.mode = "Stream" /\ args.protocol = "Icmp"
    /\ ManyTargets /\ ValidBut(3)

====
